---- MODULE Spec2Model ----
(***************************************************************************)
(* Model of sandbox_launcher.py: content hashing, directory fingerprints,  *)
(* per-file snapshots, their diffs, the overlay life cycle and the         *)
(* session that main() runs around one sandbox invocation.                 *)
(*                                                                         *)
(* Strings are sequences of tokens.  A token is one character ("a", "/")   *)
(* or one 64-character hexadecimal digest ("H1", "H2"); sha256 is taken    *)
(* to be collision free, so a digest is represented by a token naming its  *)
(* preimage (hash_file) or by the hashed byte stream itself (merkle_hash). *)
(***************************************************************************)
EXTENDS Integers, Sequences, FiniteSets, TLC

(***************************************************************************)
(* Bounds of the model.                                                    *)
(***************************************************************************)
\* longest list of --edit arguments
MaxPaths == 2
\* most changes the sandboxed command makes to the mounted directories
MaxWrites == 2

(***************************************************************************)
(* Strings, relative paths and file content.                               *)
(***************************************************************************)
Contents == {"c1", "c2"}

\* relative paths of regular files that can occur in a tree; the third one
\* is a top-level file whose name contains the hex digest of content "c1"
FileNames == { <<"a">>, <<"b">>, <<"a", "H1", "b">>, <<"d", "/", "a">> }

\* relative paths of sub-directories that can occur in a tree
DirNames == { <<"d">> }

\* the directory a relative path lies in (<<>> is the walked directory)
ParentOf(rel) ==
    IF Len(rel) >= 3 /\ rel[2] = "/" THEN <<rel[1]>> ELSE <<>>

\* code point order of the tokens: '/' < digits < letters; both digests are
\* taken to start with a digit
Rank(tok) ==
    CASE tok = "/"  -> 0
      [] tok = "H1" -> 1
      [] tok = "H2" -> 2
      [] tok = "a"  -> 3
      [] tok = "b"  -> 4
      [] tok = "d"  -> 5

\* Python's str.__lt__: lexicographic, a proper prefix is smaller
RECURSIVE StrLess(_, _)
StrLess(s, t) ==
    IF t = <<>> THEN FALSE
    ELSE IF s = <<>> THEN TRUE
    ELSE IF Head(s) # Head(t) THEN Rank(Head(s)) < Rank(Head(t))
    ELSE StrLess(Tail(s), Tail(t))

\* Python's tuple order on (name, digest) pairs
EntryLess(x, y) ==
    \/ StrLess(x[1], y[1])
    \/ x[1] = y[1] /\ StrLess(x[2], y[2])

(***************************************************************************)
(* Directory trees.  A tree is the content of one directory: its regular   *)
(* files with their content and its sub-directories.                       *)
(***************************************************************************)
EmptyTree == [files |-> <<>>, dirs |-> {}]

WellFormed(tree) ==
    \A f \in DOMAIN tree.files : ParentOf(f) = <<>> \/ ParentOf(f) \in tree.dirs

TreesOver(names) ==
    { t \in UNION { [files : [fs -> Contents], dirs : SUBSET DirNames]
                    : fs \in SUBSET names } : WellFormed(t) }

(***************************************************************************)
(* Hasher.                                                                 *)
(***************************************************************************)
\* the mutant: the digest does not depend on the content
HashFileConstant(content) == <<"H1">>

\* hash_file: sha256 of the whole content, read in chunks
hash_file(content) ==
    IF content = "c1" THEN <<"H1">> ELSE <<"H2">>

\* the entries merkle_hash collects: (relative path, digest) for a file and
\* (relative path + '/', '') for a directory
FileEntry(tree, f) == << f, hash_file(tree.files[f]) >>

DirEntry(d) == << d \o <<"/">>, <<>> >>

EntryOf(tree, name) ==
    IF name \in DOMAIN tree.files THEN FileEntry(tree, name) ELSE DirEntry(name)

NamesIn(tree) == DOMAIN tree.files \cup tree.dirs

\* the orders os.walk may yield the entries of a tree in: every enumeration
\* of its names
WalkOrders(names) ==
    LET n == Cardinality(names)
    IN  { s \in [1..n -> names] : \A i, j \in 1..n : i # j => s[i] # s[j] }

\* the list `entries` after the walk of lines 22-28, for one walk order
WalkEntries(tree, order) ==
    [i \in 1..Len(order) |-> EntryOf(tree, order[i])]

\* sha.update(name) ; sha.update(digest) for every entry, in list order
RECURSIVE Feed(_)
Feed(entries) ==
    IF entries = <<>> THEN <<>>
    ELSE Head(entries)[1] \o Head(entries)[2] \o Feed(Tail(entries))

\* lines 29-33: fold the sorted entries into one digest
FoldEntries(entries) == [sha256 |-> Feed(SortSeq(entries, EntryLess))]

merkle_hash(tree, order) == FoldEntries(WalkEntries(tree, order))

(***************************************************************************)
(* Snapshotter.                                                            *)
(***************************************************************************)
\* snapshot_directory: relative file path -> digest, directories left out
snapshot_directory(tree) ==
    [f \in DOMAIN tree.files |-> hash_file(tree.files[f])]


\* snapshot_directories / compute_initial_hashes are dict comprehensions over
\* a list of paths; a Python dict is modelled as a sequence of <<key, value>>
\* pairs in insertion order, with unique keys
HasKey(d, k) == \E n \in 1..Len(d) : d[n][1] = k

Get(d, k) == d[CHOOSE n \in 1..Len(d) : d[n][1] = k][2]

Put(d, k, v) ==
    IF HasKey(d, k)
    THEN [n \in 1..Len(d) |-> IF d[n][1] = k THEN <<k, v>> ELSE d[n]]
    ELSE Append(d, <<k, v>>)

Keys(d) == [n \in 1..Len(d) |-> d[n][1]]

Values(d) == [n \in 1..Len(d) |-> d[n][2]]

KeySet(d) == { d[n][1] : n \in 1..Len(d) }

(***************************************************************************)
(* ChangeReporter.                                                         *)
(***************************************************************************)
\* diff_hashes: the paths of `initial` whose hash differs from final.get(path)
diff_hashes(initial, final) ==
    SelectSeq(Keys(initial),
              LAMBDA path : \/ ~HasKey(final, path)
                            \/ Get(initial, path) # Get(final, path))

\* a set of relative paths as a list, in string order (the code iterates in
\* dict and set order, which this model does not distinguish)
RECURSIVE ListOf(_)
ListOf(names) ==
    IF names = {} THEN <<>>
    ELSE LET least == CHOOSE x \in names : \A y \in names \ {x} : StrLess(x, y)
         IN  <<least>> \o ListOf(names \ {least})

\* the mutant: end.get(file) != digest, so a missing file counts as modified
StartRecordMissingAsModified(start, end, file) ==
    IF file \notin DOMAIN end \/ end[file] # start[file]
    THEN << <<"Modified", file>> >>
    ELSE <<>>

\* lines 76-80, one iteration: the record a file of `start` adds to `changed`
StartRecord(start, end, file) ==
    IF file \notin DOMAIN end THEN << <<"Removed", file>> >>
    ELSE IF end[file] # start[file] THEN << <<"Modified", file>> >>
    ELSE <<>>

RECURSIVE StartRecords(_, _, _)
StartRecords(start, end, files) ==
    IF files = <<>> THEN <<>>
    ELSE StartRecord(start, end, Head(files))
         \o StartRecords(start, end, Tail(files))

\* lines 82-83: one 'Added' record per key of end that start lacks
AddedRecords(start, end) ==
    LET new == ListOf(DOMAIN end \ DOMAIN start)
    IN  [n \in 1..Len(new) |-> <<"Added", new[n]>>]

\* the mutant: files that appear in end only are not reported
ChangedNoAdded(start, end) == StartRecords(start, end, ListOf(DOMAIN start))

\* lines 74-83: the list `changed` of one root
Changed(start, end) ==
    StartRecords(start, end, ListOf(DOMAIN start)) \o AddedRecords(start, end)

\* the mutant: every root of initial becomes a key, also with an empty list
RECURSIVE DiffSnapshotsKeepEmpty(_, _)
DiffSnapshotsKeepEmpty(initial, final) ==
    IF initial = <<>> THEN <<>>
    ELSE LET path == Head(initial)[1]
             end == IF HasKey(final, path) THEN Get(final, path) ELSE <<>>
         IN  << <<path, Changed(Head(initial)[2], end)>> >>
             \o DiffSnapshotsKeepEmpty(Tail(initial), final)

\* diff_snapshots: root -> list of change records, roots without a change
\* left out
RECURSIVE diff_snapshots(_, _)
diff_snapshots(initial, final) ==
    IF initial = <<>> THEN <<>>
    ELSE LET path == Head(initial)[1]
             end == IF HasKey(final, path) THEN Get(final, path) ELSE <<>>
             changed == Changed(Head(initial)[2], end)
         IN  (IF changed # <<>> THEN << <<path, changed>> >> ELSE <<>>)
             \o diff_snapshots(Tail(initial), final)


(***************************************************************************)
(* The host file system of a session.                                      *)
(***************************************************************************)
\* the paths --edit arguments resolve to: two directories, a path that does
\* not exist and a regular file
Root1 == <<"srv", 1>>
Root2 == <<"srv", 2>>
MissingPath == <<"srv", 3>>
FilePath == <<"srv", 4>>

UserPaths == {Root1, Root2, MissingPath, FilePath}

\* the names tempfile.mkdtemp can hand out
TempPaths == { <<"tmp", k>> : k \in 1..MaxPaths }

HostPaths == UserPaths \cup TempPaths

NoNode == [kind |-> "none", tree |-> EmptyTree]

FileNode == [kind |-> "file", tree |-> EmptyTree]

DirNode(tree) == [kind |-> "dir", tree |-> tree]

Root1Tree == [files |-> (<<"a">> :> "c1"), dirs |-> {}]

Root2Tree == [files |-> (<<"a">> :> "c1" @@ <<"d", "/", "a">> :> "c2"),
              dirs |-> {<<"d">>}]

InitFS ==
    [p \in HostPaths |->
        CASE p = Root1 -> DirNode(Root1Tree)
          [] p = Root2 -> DirNode(Root2Tree)
          [] p = FilePath -> FileNode
          [] OTHER -> NoNode]

\* what os.walk(p) finds: nothing when p is no directory (errors are ignored)
TreeAt(fsys, p) == IF fsys[p].kind = "dir" THEN fsys[p].tree ELSE EmptyTree

\* the command line arguments: --edit values are absolute, or relative to
\* the working directory /srv
EditArgs == { <<"abs", 1>>, <<"rel", 1>>, <<"abs", 2>>, <<"abs", 3>>, <<"abs", 4>> }

Images == {"img"}

Users == {"dev"}

Commands == { <<"make", "test">> }

\* exit codes of the sandboxed command
ExitCodes == {0, 1, 2}

\* Path(p).resolve()
Resolve(arg) == <<"srv", arg[2]>>

\* the mutant: a path passes when it exists
ExistsOnly(fsys, p) == fsys[p].kind # "none"

\* line 142: p.exists() and p.is_dir()
IsValidDir(fsys, p) == fsys[p].kind # "none" /\ fsys[p].kind = "dir"

(***************************************************************************)
(* OverlayManager.                                                         *)
(***************************************************************************)
\* tempfile.mkdtemp: a directory that did not exist; which of the free
\* names it takes makes no difference to the program
Mkdtemp(fsys) ==
    CHOOSE t \in TempPaths :
        /\ fsys[t].kind = "none"
        /\ \A u \in TempPaths : fsys[u].kind = "none" => t[2] <= u[2]

\* rsync -a src/ dst/: every entry of src is created or overwritten in dst
Rsync(src, dst) ==
    [files |-> [f \in DOMAIN dst.files \cup DOMAIN src.files |->
                   IF f \in DOMAIN src.files THEN src.files[f] ELSE dst.files[f]],
     dirs |-> dst.dirs \cup src.dirs]

\* the mutant: the editable directories themselves are used
OriginalPaths(mapping) == Keys(mapping)

\* line 147: overlay_paths = list(overlays.values())
OverlayPaths(mapping) == Values(mapping)

(***************************************************************************)
(* SandboxRunner: the command line and the collaborator.                   *)
(***************************************************************************)
Lit(s) == [lit |-> s]

Vol(host, container, mode) ==
    [host |-> host, container |-> container, mode |-> mode]

\* lines 104-114
IsolationFlags ==
    << Lit("docker"), Lit("run"), Lit("--rm"), Lit("-it"),
       Lit("--runtime=runsc"),
       Lit("--network"), Lit("none"),
       Lit("--read-only"),
       Lit("--tmpfs"), Lit("/tmp"),
       Lit("--cap-drop"), Lit("ALL"),
       Lit("--security-opt"), Lit("no-new-privileges"),
       Lit("--pids-limit"), Lit("64"),
       Lit("--memory"), Lit("512m") >>

\* the mutant: the overlays are mounted read-only
RECURSIVE VolumeArgsReadOnly(_)
VolumeArgsReadOnly(paths) ==
    IF paths = <<>> THEN <<>>
    ELSE << Lit("-v"), Vol(Head(paths), Head(paths), "ro") >>
         \o VolumeArgsReadOnly(Tail(paths))

\* lines 115-118: '-v', host:container:rw for every overlay path, where
\* container = host = str(p.resolve()) and p is absolute already
RECURSIVE VolumeArgs(_)
VolumeArgs(paths) ==
    IF paths = <<>> THEN <<>>
    ELSE << Lit("-v"), Vol(Head(paths), Head(paths), "rw") >>
         \o VolumeArgs(Tail(paths))

\* the mutant: the image is appended before --user
BuildCmdImageBeforeUser(img, paths, command, usr) ==
    IsolationFlags \o VolumeArgs(paths) \o << Lit(img) >>
    \o << Lit("--user"), Lit(usr) >>
    \o [n \in 1..Len(command) |-> Lit(command[n])]

\* lines 119-122 after the flags and the volumes
build_docker_cmd(img, paths, command, usr) ==
    IsolationFlags \o VolumeArgs(paths) \o << Lit("--user"), Lit(usr) >>
    \o << Lit(img) >> \o [n \in 1..Len(command) |-> Lit(command[n])]

\* the bind mounts the runtime sets up for a command line
Mounts(argv) ==
    { argv[n] : n \in { m \in 1..Len(argv) : "host" \in DOMAIN argv[m] } }

\* the mutant: any failure of the command is reported as 1
ReturnCodeAsFlag(code) == IF code = 0 THEN 0 ELSE 1

\* line 128: result.returncode
ReturnCode(code) == code


(***************************************************************************)
(* One session of main().                                                  *)
(***************************************************************************)
VARIABLES
    pc,                 \* the position of main()
    edit_args,          \* args.edit
    image, user, command,
    edit_paths,         \* line 140
    idx,                \* position of the running for loop
    overlays,           \* the mapping prepare_overlays builds and returns
    overlay_paths,      \* line 147
    fs,                 \* the host file system
    created,            \* the directories mkdtemp created in this session
    initial_hashes, initial_snapshots,
    final_hashes, final_snapshots,
    changes, file_changes,
    cmd,                \* the command line handed to the runtime
    exitCode,           \* what the sandboxed command exited with
    ret,                \* line 153
    result,             \* what main() returned
    raisedAt,           \* the step an exception left main() from
    cleanupRuns,        \* completed calls of cleanup_overlays
    rmFailed,           \* overlays whose rm -rf failed
    writes,             \* changes made while the sandbox ran
    stdout, stderr,
    log                 \* the steps of main() taken so far, in order

vars == << pc, edit_args, image, user, command, edit_paths, idx, overlays,
           overlay_paths, fs, created, initial_hashes, initial_snapshots,
           final_hashes, final_snapshots, changes, file_changes, cmd,
           exitCode, ret, result, raisedAt, cleanupRuns, rmFailed, writes,
           stdout, stderr >>

\* a variable that holds no value yet is <<>>, a value v is <<v>>
None == <<>>

ArgLists == UNION { [1..n -> EditArgs] : n \in 0..MaxPaths }

Init ==
    /\ pc = "start"
    /\ edit_args \in ArgLists
    /\ image \in Images
    /\ user \in Users
    /\ command \in Commands
    /\ edit_paths = <<>>
    /\ idx = 1
    /\ overlays = <<>>
    /\ overlay_paths = <<>>
    /\ fs = InitFS
    /\ created = {}
    /\ initial_hashes = <<>>
    /\ initial_snapshots = <<>>
    /\ final_hashes = <<>>
    /\ final_snapshots = <<>>
    /\ changes = <<>>
    /\ file_changes = <<>>
    /\ cmd = <<>>
    /\ exitCode = None
    /\ ret = None
    /\ result = None
    /\ raisedAt = None
    /\ cleanupRuns = 0
    /\ rmFailed = {}
    /\ writes = 0
    /\ stdout = <<>>
    /\ stderr = <<>>
    /\ log = <<>>

\* an exception leaves main(): nothing after the raising statement runs
Raise(step) ==
    /\ pc' = "raised"
    /\ raisedAt' = step

\* line 140
ParseArgs ==
    /\ pc = "start"
    /\ edit_paths' = [n \in 1..Len(edit_args) |-> Resolve(edit_args[n])]
    /\ idx' = 1
    /\ pc' = "validate"
    /\ UNCHANGED << log, edit_args, image, user, command, overlays, overlay_paths,
                    fs, created, initial_hashes, initial_snapshots,
                    final_hashes, final_snapshots, changes, file_changes, cmd,
                    exitCode, ret, result, raisedAt, cleanupRuns, rmFailed,
                    writes, stdout, stderr >>

\* lines 141-144, one iteration (or the end of the loop)
Validate ==
    /\ pc = "validate"
    /\ IF idx > Len(edit_paths)
       THEN /\ pc' = "prepare"
            /\ idx' = 1
            /\ UNCHANGED << stderr, result, log >>
       ELSE IF ~IsValidDir(fs, edit_paths[idx])
       THEN /\ stderr' = Append(stderr, <<"Editable path", edit_paths[idx]>>)
            /\ result' = <<1>>
            /\ pc' = "done"
            /\ log' = Append(log, "invalid_path")
            /\ UNCHANGED idx
       ELSE /\ idx' = idx + 1
            /\ UNCHANGED << pc, stderr, result, log >>
    /\ UNCHANGED << edit_args, image, user, command, edit_paths, overlays,
                    overlay_paths, fs, created, initial_hashes,
                    initial_snapshots, final_hashes, final_snapshots, changes,
                    file_changes, cmd, exitCode, ret, raisedAt, cleanupRuns,
                    rmFailed, writes, stdout >>

\* the mutant: subprocess.call instead of check_call, a failed copy is ignored
PrepareOverlayUnchecked ==
    /\ pc = "prepare"
    /\ idx <= Len(edit_paths)
    /\ LET p == edit_paths[idx]
           tmp == Mkdtemp(fs)
       IN  /\ created' = created \cup {tmp}
           /\ overlays' = Put(overlays, p, tmp)
           /\ \E copied \in BOOLEAN :
                IF copied /\ fs[p].kind = "dir"
                THEN /\ fs' = [fs EXCEPT ![tmp] =
                                  DirNode(Rsync(fs[p].tree, EmptyTree))]
                     /\ log' = Append(log, "copy")
                ELSE /\ fs' = [fs EXCEPT ![tmp] = DirNode(EmptyTree)]
                     /\ log' = Append(log, "copy_failed")
    /\ idx' = idx + 1
    /\ UNCHANGED << pc, raisedAt, edit_args, image, user, command, edit_paths,
                    overlay_paths, initial_hashes, initial_snapshots,
                    final_hashes, final_snapshots, changes, file_changes, cmd,
                    exitCode, ret, result, cleanupRuns, rmFailed, writes,
                    stdout, stderr >>

\* prepare_overlays, lines 91-94, one iteration: mkdtemp, rsync, mapping[p];
\* rsync fails when its source is no directory, and may fail for reasons of
\* its own (check_call then raises CalledProcessError)
PrepareOverlay ==
    /\ pc = "prepare"
    /\ idx <= Len(edit_paths)
    /\ LET p == edit_paths[idx]
           tmp == Mkdtemp(fs)
       IN  /\ created' = created \cup {tmp}
           /\ \E copied \in BOOLEAN :
                IF copied /\ fs[p].kind = "dir"
                THEN /\ fs' = [fs EXCEPT ![tmp] =
                                  DirNode(Rsync(fs[p].tree, EmptyTree))]
                     /\ overlays' = Put(overlays, p, tmp)
                     /\ idx' = idx + 1
                     /\ log' = Append(log, "copy")
                     /\ UNCHANGED << pc, raisedAt >>
                ELSE /\ fs' = [fs EXCEPT ![tmp] = DirNode(EmptyTree)]
                     /\ Raise("prepare")
                     /\ log' = Append(log, "copy_failed")
                     /\ UNCHANGED << overlays, idx >>
    /\ UNCHANGED << edit_args, image, user, command, edit_paths,
                    overlay_paths, initial_hashes, initial_snapshots,
                    final_hashes, final_snapshots, changes, file_changes, cmd,
                    exitCode, ret, result, cleanupRuns, rmFailed, writes,
                    stdout, stderr >>

\* the mutant: `return mapping` inside the loop, after the first overlay
PrepareReturnInsideLoop ==
    /\ pc = "prepare"
    /\ idx > 1 \/ idx > Len(edit_paths)
    /\ overlay_paths' = OverlayPaths(overlays)
    /\ pc' = "pre_snapshot"
    /\ UNCHANGED << log, edit_args, image, user, command, edit_paths, idx,
                    overlays, fs, created, initial_hashes, initial_snapshots,
                    final_hashes, final_snapshots, changes, file_changes, cmd,
                    exitCode, ret, result, raisedAt, cleanupRuns, rmFailed,
                    writes, stdout, stderr >>

\* line 95 and lines 146-147
PrepareReturn ==
    /\ pc = "prepare"
    /\ idx > Len(edit_paths)
    /\ overlay_paths' = OverlayPaths(overlays)
    /\ pc' = "pre_snapshot"
    /\ UNCHANGED << log, edit_args, image, user, command, edit_paths, idx,
                    overlays, fs, created, initial_hashes, initial_snapshots,
                    final_hashes, final_snapshots, changes, file_changes, cmd,
                    exitCode, ret, result, raisedAt, cleanupRuns, rmFailed,
                    writes, stdout, stderr >>

\* the entries of a tree in the order a walk yields them: the model takes
\* the string order and its reverse
WalkOf(tree, reversed) ==
    LET up == ListOf(NamesIn(tree))
    IN  IF reversed THEN [n \in 1..Len(up) |-> up[Len(up) + 1 - n]] ELSE up

\* compute_initial_hashes / compute_final_hashes: {str(p): merkle_hash(p)}
RECURSIVE HashesInto(_, _, _, _)
HashesInto(acc, fsys, paths, reversed) ==
    IF paths = <<>> THEN acc
    ELSE LET tree == TreeAt(fsys, Head(paths))
         IN  HashesInto(Put(acc, Head(paths),
                            merkle_hash(tree, WalkOf(tree, reversed))),
                        fsys, Tail(paths), reversed)

compute_hashes(fsys, paths, reversed) == HashesInto(<<>>, fsys, paths, reversed)

\* snapshot_directories: {str(p): snapshot_directory(p)}
RECURSIVE SnapshotsInto(_, _, _)
SnapshotsInto(acc, fsys, paths) ==
    IF paths = <<>> THEN acc
    ELSE SnapshotsInto(Put(acc, Head(paths),
                           snapshot_directory(TreeAt(fsys, Head(paths)))),
                       fsys, Tail(paths))

snapshot_directories(fsys, paths) == SnapshotsInto(<<>>, fsys, paths)

\* lines 149-150; reading a file can fail, and the exception leaves main()
PreSnapshot ==
    /\ pc = "pre_snapshot"
    /\ \E readable, reversed \in BOOLEAN :
         IF readable
         THEN /\ initial_hashes' = compute_hashes(fs, overlay_paths, reversed)
              /\ initial_snapshots' = snapshot_directories(fs, overlay_paths)
              /\ pc' = "launch"
              /\ log' = Append(log, "pre_snapshot")
              /\ UNCHANGED raisedAt
         ELSE /\ Raise("pre_snapshot")
              /\ UNCHANGED << initial_hashes, initial_snapshots, log >>
    /\ UNCHANGED << edit_args, image, user, command, edit_paths, idx,
                    overlays, overlay_paths, fs, created, final_hashes,
                    final_snapshots, changes, file_changes, cmd, exitCode,
                    ret, result, cleanupRuns, rmFailed, writes, stdout,
                    stderr >>

\* lines 152-153 up to the start of the runtime: subprocess.run raises when
\* the runtime cannot be started
Launch ==
    /\ pc = "launch"
    /\ cmd' = build_docker_cmd(image, overlay_paths, command, user)
    /\ stdout' = Append(stdout, <<"Launching sandbox:">>)
    /\ log' = Append(log, "launch")
    /\ \E started \in BOOLEAN :
         IF started
         THEN pc' = "executing" /\ UNCHANGED raisedAt
         ELSE Raise("launch")
    /\ UNCHANGED << edit_args, image, user, command, edit_paths, idx,
                    overlays, overlay_paths, fs, created, initial_hashes,
                    initial_snapshots, final_hashes, final_snapshots, changes,
                    file_changes, exitCode, ret, result, cleanupRuns,
                    rmFailed, writes, stderr >>


(***************************************************************************)
(* The sandboxed command while it runs: it reaches the host directories    *)
(* that are bind mounted read-write, and nothing else of the host.         *)
(***************************************************************************)
\* the files and directories the sandboxed command works on
SandboxFiles == { <<"a">>, <<"d", "/", "a">> }

Writable == { m.host : m \in { v \in Mounts(cmd) : v.mode = "rw" } }

Executing == pc = "executing" /\ writes < MaxWrites

SessionFrame ==
    UNCHANGED << pc, log, edit_args, image, user, command, edit_paths, idx,
                 overlays, overlay_paths, created, initial_hashes,
                 initial_snapshots, final_hashes, final_snapshots, changes,
                 file_changes, cmd, exitCode, ret, result, raisedAt,
                 cleanupRuns, rmFailed, stdout, stderr >>

SandboxWriteFile ==
    /\ Executing
    /\ \E h \in Writable, f \in SandboxFiles, c \in Contents :
         /\ fs[h].kind = "dir"
         /\ ParentOf(f) = <<>> \/ ParentOf(f) \in fs[h].tree.dirs
         /\ fs' = [fs EXCEPT ![h].tree.files =
                      [g \in DOMAIN @ \cup {f} |-> IF g = f THEN c ELSE @[g]]]
    /\ writes' = writes + 1
    /\ SessionFrame

SandboxRemoveFile ==
    /\ Executing
    /\ \E h \in Writable :
         /\ fs[h].kind = "dir"
         /\ \E f \in DOMAIN fs[h].tree.files :
              fs' = [fs EXCEPT ![h].tree.files =
                        [g \in DOMAIN @ \ {f} |-> @[g]]]
    /\ writes' = writes + 1
    /\ SessionFrame

SandboxMkdir ==
    /\ Executing
    /\ \E h \in Writable, d \in DirNames :
         /\ fs[h].kind = "dir"
         /\ d \notin fs[h].tree.dirs
         /\ fs' = [fs EXCEPT ![h].tree.dirs = @ \cup {d}]
    /\ writes' = writes + 1
    /\ SessionFrame

\* rm -rf of a sub-directory
SandboxRmdir ==
    /\ Executing
    /\ \E h \in Writable :
         /\ fs[h].kind = "dir"
         /\ \E d \in fs[h].tree.dirs :
              fs' = [fs EXCEPT ![h].tree =
                        [files |-> [g \in { x \in DOMAIN @.files : ParentOf(x) # d }
                                       |-> @.files[g]],
                         dirs |-> @.dirs \ {d}]]
    /\ writes' = writes + 1
    /\ SessionFrame

\* an overlay is removed on the host while the sandbox runs
OverlayVanishes ==
    /\ Executing
    /\ \E t \in created :
         /\ fs[t].kind = "dir"
         /\ fs' = [fs EXCEPT ![t] = NoNode]
    /\ writes' = writes + 1
    /\ SessionFrame

\* KeyboardInterrupt while subprocess.run waits
Interrupt ==
    /\ pc = "executing"
    /\ Raise("interrupt")
    /\ UNCHANGED << log, edit_args, image, user, command, edit_paths, idx,
                    overlays, overlay_paths, fs, created, initial_hashes,
                    initial_snapshots, final_hashes, final_snapshots, changes,
                    file_changes, cmd, exitCode, ret, result, cleanupRuns,
                    rmFailed, writes, stdout, stderr >>

\* the sandboxed command exits; run_container returns, line 153 assigns ret
SandboxExit ==
    /\ pc = "executing"
    /\ \E code \in ExitCodes :
         /\ exitCode' = <<code>>
         /\ ret' = <<ReturnCode(code)>>
    /\ pc' = "post_snapshot"
    /\ log' = Append(log, "exit")
    /\ UNCHANGED << edit_args, image, user, command, edit_paths, idx,
                    overlays, overlay_paths, fs, created, initial_hashes,
                    initial_snapshots, final_hashes, final_snapshots, changes,
                    file_changes, cmd, result, raisedAt, cleanupRuns,
                    rmFailed, writes, stdout, stderr >>

\* lines 155-158
PostSnapshot ==
    /\ pc = "post_snapshot"
    /\ \E readable, reversed \in BOOLEAN :
         IF readable
         THEN LET fh == compute_hashes(fs, overlay_paths, reversed)
                  fsn == snapshot_directories(fs, overlay_paths)
              IN  /\ final_hashes' = fh
                  /\ changes' = diff_hashes(initial_hashes, fh)
                  /\ final_snapshots' = fsn
                  /\ file_changes' = diff_snapshots(initial_snapshots, fsn)
                  /\ pc' = "cleanup"
                  /\ idx' = 1
                  /\ log' = log \o <<"post_snapshot", "diff">>
                  /\ UNCHANGED raisedAt
         ELSE /\ Raise("post_snapshot")
              /\ UNCHANGED << final_hashes, changes, final_snapshots,
                              file_changes, idx, log >>
    /\ UNCHANGED << edit_args, image, user, command, edit_paths, overlays,
                    overlay_paths, fs, created, initial_hashes,
                    initial_snapshots, cmd, exitCode, ret, result,
                    cleanupRuns, rmFailed, writes, stdout, stderr >>

\* the mutant: check=True, a failed removal raises CalledProcessError
RemoveOverlayChecked ==
    /\ pc = "cleanup"
    /\ idx <= Len(Values(overlays))
    /\ LET overlay == Values(overlays)[idx]
       IN  \E removed \in BOOLEAN :
             IF removed
             THEN /\ fs' = [fs EXCEPT ![overlay] = NoNode]
                  /\ idx' = idx + 1
                  /\ UNCHANGED << rmFailed, pc, raisedAt >>
             ELSE /\ rmFailed' = rmFailed \cup {overlay}
                  /\ Raise("cleanup")
                  /\ UNCHANGED << fs, idx >>
    /\ log' = Append(log, "remove")
    /\ UNCHANGED << edit_args, image, user, command, edit_paths, overlays,
                    overlay_paths, created, initial_hashes, initial_snapshots,
                    final_hashes, final_snapshots, changes, file_changes, cmd,
                    exitCode, ret, result, cleanupRuns, writes, stdout,
                    stderr >>

\* cleanup_overlays, lines 99-100, one iteration: rm -rf with check=False;
\* a failed removal leaves the directory and raises nothing
RemoveOverlay ==
    /\ pc = "cleanup"
    /\ idx <= Len(Values(overlays))
    /\ LET overlay == Values(overlays)[idx]
       IN  \E removed \in BOOLEAN :
             IF removed
             THEN fs' = [fs EXCEPT ![overlay] = NoNode] /\ UNCHANGED rmFailed
             ELSE rmFailed' = rmFailed \cup {overlay} /\ UNCHANGED fs
    /\ idx' = idx + 1
    /\ log' = Append(log, "remove")
    /\ UNCHANGED << pc, edit_args, image, user, command, edit_paths, overlays,
                    overlay_paths, created, initial_hashes, initial_snapshots,
                    final_hashes, final_snapshots, changes, file_changes, cmd,
                    exitCode, ret, result, raisedAt, cleanupRuns, writes,
                    stdout, stderr >>

\* cleanup_overlays returns to line 160
CleanupReturn ==
    /\ pc = "cleanup"
    /\ idx > Len(Values(overlays))
    /\ cleanupRuns' = cleanupRuns + 1
    /\ pc' = "report"
    /\ UNCHANGED << log, edit_args, image, user, command, edit_paths, idx,
                    overlays, overlay_paths, fs, created, initial_hashes,
                    initial_snapshots, final_hashes, final_snapshots, changes,
                    file_changes, cmd, exitCode, ret, result, raisedAt,
                    rmFailed, writes, stdout, stderr >>

\* lines 166-168: one line per change record, root by root
RECURSIVE FileLines(_)
FileLines(fc) ==
    IF fc = <<>> THEN <<>>
    ELSE LET path == Head(fc)[1]
             files == Head(fc)[2]
         IN  [n \in 1..Len(files) |-> <<"   ", path, "/", files[n]>>]
             \o FileLines(Tail(fc))

\* the mutant: the "no changes" line is printed after the list as well
ReportLinesAlwaysNoChanges(chg, fc) ==
    (IF chg # <<>>
     THEN << <<"Directories changed during session:">> >>
          \o [n \in 1..Len(chg) |-> <<" -", chg[n]>>]
          \o FileLines(fc)
     ELSE <<>>)
    \o << <<"No changes detected.">> >>

\* lines 162-170
ReportLines(chg, fc) ==
    IF chg # <<>>
    THEN << <<"Directories changed during session:">> >>
         \o [n \in 1..Len(chg) |-> <<" -", chg[n]>>]
         \o FileLines(fc)
    ELSE << <<"No changes detected.">> >>

\* lines 162-171
Report ==
    /\ pc = "report"
    /\ stdout' = stdout \o ReportLines(changes, file_changes)
    /\ result' = ret
    /\ pc' = "done"
    /\ log' = Append(log, "report")
    /\ UNCHANGED << edit_args, image, user, command, edit_paths, idx,
                    overlays, overlay_paths, fs, created, initial_hashes,
                    initial_snapshots, final_hashes, final_snapshots, changes,
                    file_changes, cmd, exitCode, ret, raisedAt, cleanupRuns,
                    rmFailed, writes, stderr >>

Next ==
    \/ ParseArgs
    \/ Validate
    \/ PrepareOverlay
    \/ PrepareReturn
    \/ PreSnapshot
    \/ Launch
    \/ SandboxWriteFile
    \/ SandboxRemoveFile
    \/ SandboxMkdir
    \/ SandboxRmdir
    \/ OverlayVanishes
    \/ Interrupt
    \/ SandboxExit
    \/ PostSnapshot
    \/ RemoveOverlay
    \/ CleanupReturn
    \/ Report

Spec == Init /\ [][Next]_vars


(***************************************************************************)
(* Properties of a session.                                                *)
(***************************************************************************)
SessionEnded == pc \in {"done", "raised"}

SeqToSet(q) == { q[n] : n \in 1..Len(q) }

\* C1: every session that created an overlay has run cleanup_overlays
\* exactly once when it ends, whether main() returned or an exception (copy
\* failure, snapshot failure, launch failure, interrupt) left it.
C1_CleanupOnceOnEveryExit ==
    (SessionEnded /\ created # {}) => cleanupRuns = 1

\* C2: when a copy fails inside prepare_overlays, every directory the call
\* created is gone by the time the error reaches the caller.
C2_FailedPrepareReleasesOverlays ==
    raisedAt = "prepare" => \A t \in created : fs[t].kind = "none"

\* some requested path, at any position, is not an existing directory
HasInvalidPath ==
    \E n \in 1..Len(edit_paths) : InitFS[edit_paths[n]].kind # "dir"

\* C3: with an invalid editable path anywhere in the list the session never
\* leaves validation, creates no directory, changes nothing on the host and
\* returns 1.
C3_InvalidPathNoSideEffects ==
    HasInvalidPath =>
        /\ pc \in {"validate", "done"}
        /\ created = {}
        /\ fs = InitFS
        /\ pc = "done" => result = <<1>>

\* the invalid path is the second of the list, after a valid one
C3_Witness ==
    /\ pc = "done"
    /\ Len(edit_paths) = 2
    /\ InitFS[edit_paths[1]].kind = "dir"
    /\ InitFS[edit_paths[2]].kind # "dir"
    /\ result = <<1>>
    /\ created = {}

\* C4: once the sandboxed command has exited with code c, main() returns c,
\* whatever changed and whether or not the overlays could be removed.
C4_ResultIsExitCode ==
    (pc = "done" /\ exitCode # None) => result = exitCode

\* a nonzero exit code, a reported change and a failed removal
C4_Witness ==
    /\ pc = "done"
    /\ exitCode = <<2>>
    /\ result = <<2>>
    /\ changes # <<>>
    /\ rmFailed # {}

\* C5: an overlay is a fresh directory, not the root it copies; right after
\* prepare_overlays its content is that of the root; the roots never change
\* afterwards, and only directories of the session are mounted writable.
C5_OriginalsIsolated ==
    /\ \A p \in UserPaths : fs[p] = InitFS[p]
    /\ \A n \in 1..Len(overlays) :
         /\ overlays[n][2] # overlays[n][1]
         /\ overlays[n][2] \in created
         /\ pc \in {"prepare", "pre_snapshot", "launch"} =>
              /\ fs[overlays[n][2]].kind = "dir"
              /\ fs[overlays[n][2]].tree = fs[overlays[n][1]].tree
    /\ Writable \subseteq created
    /\ SeqToSet(overlay_paths) \subseteq created

\* the sandbox changed the overlay of a root, the change was reported and
\* the overlay was removed
C5_Witness ==
    /\ pc = "done"
    /\ overlays # <<>>
    /\ writes > 0
    /\ file_changes # <<>>
    /\ \A n \in 1..Len(overlays) : fs[overlays[n][2]].kind = "none"
    /\ fs[Root2] = DirNode(Root2Tree)

\* C7: after the post snapshot the roots diff_hashes returns are exactly the
\* keys of the diff_snapshots result.
C7_CoarseAndDetailedAgree ==
    pc \in {"cleanup", "report", "done"} =>
        SeqToSet(changes) = KeySet(file_changes)

\* the positions of cmd that bind mount host directory o
MountsOf(o) ==
    { m \in 1..Len(cmd) : "host" \in DOMAIN cmd[m] /\ cmd[m].host = o }

\* C10: the command line holds, for every binding (root R, overlay O), one
\* read-write bind mount of O whose container path is R.
C10_MountAtOriginalPath ==
    cmd # <<>> =>
        \A n \in 1..Len(overlays) :
            /\ Cardinality(MountsOf(overlays[n][2])) = 1
            /\ \A m \in MountsOf(overlays[n][2]) :
                 cmd[m].container = overlays[n][1] /\ cmd[m].mode = "rw"


(***************************************************************************)
(* merkle_hash on its own: two directories of the host are fingerprinted,  *)
(* each walk yielding its entries in any order.                            *)
(***************************************************************************)
DirA == <<"tmp", 1>>
DirB == <<"tmp", 2>>

Trees == TreesOver(FileNames)

InitHash ==
    /\ pc = "hash_first"
    /\ \E ta, tb \in Trees :
         fs = [p \in HostPaths |->
                 IF p = DirA THEN DirNode(ta)
                 ELSE IF p = DirB THEN DirNode(tb) ELSE NoNode]
    /\ edit_args = <<>>
    /\ image \in Images
    /\ user \in Users
    /\ command \in Commands
    /\ edit_paths = <<>>
    /\ idx = 1
    /\ overlays = <<>>
    /\ overlay_paths = <<>>
    /\ created = {}
    /\ initial_hashes = <<>>
    /\ initial_snapshots = <<>>
    /\ final_hashes = <<>>
    /\ final_snapshots = <<>>
    /\ changes = <<>>
    /\ file_changes = <<>>
    /\ cmd = <<>>
    /\ exitCode = None
    /\ ret = None
    /\ result = None
    /\ raisedAt = None
    /\ cleanupRuns = 0
    /\ rmFailed = {}
    /\ writes = 0
    /\ stdout = <<>>
    /\ stderr = <<>>
    /\ log = <<>>

HashFrame ==
    UNCHANGED << log, edit_args, image, user, command, edit_paths, idx, overlays,
                 overlay_paths, fs, created, initial_snapshots, final_snapshots,
                 changes, file_changes, cmd, exitCode, ret, result, raisedAt,
                 cleanupRuns, rmFailed, writes, stdout, stderr >>

\* merkle_hash(DirA)
HashFirst ==
    /\ pc = "hash_first"
    /\ \E order \in WalkOrders(NamesIn(TreeAt(fs, DirA))) :
         initial_hashes' = Put(<<>>, DirA, merkle_hash(TreeAt(fs, DirA), order))
    /\ pc' = "hash_second"
    /\ UNCHANGED final_hashes
    /\ HashFrame

\* merkle_hash(DirB)
HashSecond ==
    /\ pc = "hash_second"
    /\ \E order \in WalkOrders(NamesIn(TreeAt(fs, DirB))) :
         final_hashes' = Put(<<>>, DirB, merkle_hash(TreeAt(fs, DirB), order))
    /\ pc' = "hash_done"
    /\ UNCHANGED initial_hashes
    /\ HashFrame

NextHash == HashFirst \/ HashSecond

SpecHash == InitHash /\ [][NextHash]_vars

\* C8: two trees have the same fingerprint exactly when they hold the same
\* files with the same content, whatever order the walks took.
C8_FingerprintEqualIffSameFiles ==
    pc = "hash_done" =>
        ( Get(initial_hashes, DirA) = Get(final_hashes, DirB)
          <=> fs[DirA].tree.files = fs[DirB].tree.files )

\* the files alone: trees with the same directories and different files
\* have different fingerprints (fails where a file name holds a digest)
C8_SameDirsDifferentFiles ==
    (pc = "hash_done" /\ fs[DirA].tree.dirs = fs[DirB].tree.dirs
                      /\ fs[DirA].tree.files # fs[DirB].tree.files)
        => Get(initial_hashes, DirA) # Get(final_hashes, DirB)


(***************************************************************************)
(* diff_snapshots on its own: any two maps root -> snapshot.               *)
(***************************************************************************)
SnapNames == { <<"a">>, <<"b">> }

Digests == { hash_file(c) : c \in Contents }

Snapshots == UNION { [names -> Digests] : names \in SUBSET SnapNames }

\* the maps over the roots DirA and DirB, either of which may be missing
SnapDicts ==
    { (IF DirA \in roots THEN << <<DirA, sa>> >> ELSE <<>>)
      \o (IF DirB \in roots THEN << <<DirB, sb>> >> ELSE <<>>)
      : roots \in SUBSET {DirA, DirB}, sa \in Snapshots, sb \in Snapshots }

InitDiff ==
    /\ pc = "diff_call"
    /\ initial_snapshots \in SnapDicts
    /\ final_snapshots \in SnapDicts
    /\ fs = InitFS
    /\ edit_args = <<>>
    /\ image \in Images
    /\ user \in Users
    /\ command \in Commands
    /\ edit_paths = <<>>
    /\ idx = 1
    /\ overlays = <<>>
    /\ overlay_paths = <<>>
    /\ created = {}
    /\ initial_hashes = <<>>
    /\ final_hashes = <<>>
    /\ changes = <<>>
    /\ file_changes = <<>>
    /\ cmd = <<>>
    /\ exitCode = None
    /\ ret = None
    /\ result = None
    /\ raisedAt = None
    /\ cleanupRuns = 0
    /\ rmFailed = {}
    /\ writes = 0
    /\ stdout = <<>>
    /\ stderr = <<>>
    /\ log = <<>>

\* file_changes = diff_snapshots(initial_snapshots, final_snapshots)
DiffSnapshots ==
    /\ pc = "diff_call"
    /\ file_changes' = diff_snapshots(initial_snapshots, final_snapshots)
    /\ pc' = "diff_done"
    /\ UNCHANGED << log, edit_args, image, user, command, edit_paths, idx,
                    overlays, overlay_paths, fs, created, initial_hashes,
                    initial_snapshots, final_hashes, final_snapshots, changes,
                    cmd, exitCode, ret, result, raisedAt, cleanupRuns,
                    rmFailed, writes, stdout, stderr >>

NextDiff == DiffSnapshots

SpecDiff == InitDiff /\ [][NextDiff]_vars

\* the post snapshot a root of pre is compared with
PostOf(root) ==
    IF HasKey(final_snapshots, root) THEN Get(final_snapshots, root) ELSE <<>>

\* the records the result holds for a root
RecordsOf(root) ==
    IF HasKey(file_changes, root) THEN Get(file_changes, root) ELSE <<>>

Count(list, x) == Cardinality({ n \in 1..Len(list) : list[n] = x })

\* the record the claim gives a path of a root, as a set of at most one kind
KindsFor(start, end, file) ==
    IF file \in DOMAIN start /\ file \notin DOMAIN end THEN {"Removed"}
    ELSE IF file \notin DOMAIN start /\ file \in DOMAIN end THEN {"Added"}
    ELSE IF file \in DOMAIN start /\ file \in DOMAIN end
            /\ start[file] # end[file] THEN {"Modified"}
    ELSE {}

\* C6: for every root of pre, its records are exactly one Removed per path
\* only in pre, one Modified per path in both with different digests, one
\* Added per path only in post, and nothing for an unchanged path.
C6_DiffClassifiesEveryPath ==
    pc = "diff_done" =>
        \A root \in KeySet(initial_snapshots) :
            LET start == Get(initial_snapshots, root)
                end == PostOf(root)
                recs == RecordsOf(root)
            IN  /\ \A file \in SnapNames, kind \in {"Removed", "Modified", "Added"} :
                     Count(recs, <<kind, file>>) =
                        IF kind \in KindsFor(start, end, file) THEN 1 ELSE 0
                /\ Len(recs) =
                     Cardinality({ f \in SnapNames : KindsFor(start, end, f) # {} })

\* one root shows a removed, a modified path; the other root is missing from
\* post; an added path occurs as well
C6_Witness ==
    /\ pc = "diff_done"
    /\ \E root \in KeySet(initial_snapshots) :
         /\ HasKey(final_snapshots, root)
         /\ \E f, g \in SnapNames :
              /\ <<"Removed", f>> \in SeqToSet(RecordsOf(root))
              /\ <<"Modified", g>> \in SeqToSet(RecordsOf(root))
    /\ \E root \in KeySet(initial_snapshots) :
         /\ ~HasKey(final_snapshots, root)
         /\ Len(RecordsOf(root)) = 2

\* an added path next to an unchanged one
C9_Witness ==
    /\ pc = "diff_done"
    /\ Len(initial_snapshots) = 2
    /\ \E root \in KeySet(initial_snapshots) :
         /\ Get(initial_snapshots, root) # <<>>
         /\ ~HasKey(file_changes, root)
    /\ \E root \in KeySet(initial_snapshots), f \in SnapNames :
         RecordsOf(root) = << <<"Added", f>> >>

\* C9: the keys of the result are the roots of pre whose snapshot differs
\* from the post snapshot they are compared with, and no key maps to an
\* empty list.
C9_OnlyChangedRootsAreKeys ==
    pc = "diff_done" =>
        /\ KeySet(file_changes) =
             { root \in KeySet(initial_snapshots) :
                 Get(initial_snapshots, root) # PostOf(root) }
        /\ \A n \in 1..Len(file_changes) : file_changes[n][2] # <<>>


\* C10 as amended: the command line holds, for every binding (root R,
\* overlay O), one bind mount of O; it is read-write and its container path
\* is O itself; nothing else is mounted.
C10_MountAtOverlayPath ==
    cmd # <<>> =>
        /\ \A n \in 1..Len(overlays) :
             /\ Cardinality(MountsOf(overlays[n][2])) = 1
             /\ \A m \in MountsOf(overlays[n][2]) :
                  cmd[m].container = overlays[n][2] /\ cmd[m].mode = "rw"
        /\ Cardinality({ m \in 1..Len(cmd) : "host" \in DOMAIN cmd[m] })
             = Len(overlays)

\* the sandbox runs with the overlays of two roots mounted
C10_Witness ==
    /\ pc = "executing"
    /\ Len(overlays) = 2
    /\ Cardinality(Mounts(cmd)) = 2


(***************************************************************************)
(* build_docker_cmd on its own: any image, overlay list, user and command. *)
(***************************************************************************)
CmdImages == {"img", "alpine"}

CmdUsers == {"dev", "root"}

\* command vectors, also ones that repeat a docker option or the image name
CmdWords == {"sh", "--privileged", "img"}

CmdVectors == UNION { [1..n -> CmdWords] : n \in 0..2 }

CmdPathLists == UNION { [1..n -> TempPaths] : n \in 0..MaxPaths }

InitCmd ==
    /\ pc = "cmd_call"
    /\ image \in CmdImages
    /\ user \in CmdUsers
    /\ command \in CmdVectors
    /\ overlay_paths \in CmdPathLists
    /\ fs = InitFS
    /\ edit_args = <<>>
    /\ edit_paths = <<>>
    /\ idx = 1
    /\ overlays = <<>>
    /\ created = {}
    /\ initial_hashes = <<>>
    /\ initial_snapshots = <<>>
    /\ final_hashes = <<>>
    /\ final_snapshots = <<>>
    /\ changes = <<>>
    /\ file_changes = <<>>
    /\ cmd = <<>>
    /\ exitCode = None
    /\ ret = None
    /\ result = None
    /\ raisedAt = None
    /\ cleanupRuns = 0
    /\ rmFailed = {}
    /\ writes = 0
    /\ stdout = <<>>
    /\ stderr = <<>>
    /\ log = <<>>

\* cmd = build_docker_cmd(image, overlay_paths, command, user)
BuildCmd ==
    /\ pc = "cmd_call"
    /\ cmd' = build_docker_cmd(image, overlay_paths, command, user)
    /\ pc' = "cmd_done"
    /\ UNCHANGED << log, edit_args, image, user, command, edit_paths, idx,
                    overlays, overlay_paths, fs, created, initial_hashes,
                    initial_snapshots, final_hashes, final_snapshots, changes,
                    file_changes, exitCode, ret, result, raisedAt,
                    cleanupRuns, rmFailed, writes, stdout, stderr >>

NextCmd == BuildCmd

SpecCmd == InitCmd /\ [][NextCmd]_vars

\* the position of the image name: the command vector is all that follows
ImageAt == Len(cmd) - Len(command)

\* option s occurs before the image
FlagBeforeImage(s) == \E n \in 1..(ImageAt - 1) : cmd[n] = Lit(s)

\* option s with value v occurs before the image
OptionBeforeImage(s, v) ==
    \E n \in 1..(ImageAt - 2) : cmd[n] = Lit(s) /\ cmd[n + 1] = Lit(v)

\* C11: the argument list holds every isolation setting and --user <user>
\* before the image name, one tmpfs mount, and after the image name the
\* command vector, element by element in its order, and nothing else.
C11_IsolationBeforeImage ==
    pc = "cmd_done" =>
        /\ ImageAt >= 1
        /\ cmd[ImageAt] = Lit(image)
        /\ \A n \in 1..Len(command) : cmd[ImageAt + n] = Lit(command[n])
        /\ OptionBeforeImage("--network", "none")
        /\ FlagBeforeImage("--read-only")
        /\ OptionBeforeImage("--tmpfs", "/tmp")
        /\ Cardinality({ n \in 1..(ImageAt - 1) : cmd[n] = Lit("--tmpfs") }) = 1
        /\ OptionBeforeImage("--cap-drop", "ALL")
        /\ OptionBeforeImage("--security-opt", "no-new-privileges")
        /\ OptionBeforeImage("--pids-limit", "64")
        /\ OptionBeforeImage("--memory", "512m")
        /\ FlagBeforeImage("--runtime=runsc")
        /\ OptionBeforeImage("--user", user)
        /\ \A n \in 1..(ImageAt - 1) :
             cmd[n] \notin { Lit(w) : w \in CmdWords }

\* two overlays, a two-word command that repeats the image name and an option
C11_Witness ==
    /\ pc = "cmd_done"
    /\ Len(overlay_paths) = 2
    /\ command = <<"--privileged", "img">>
    /\ image = "img"
    /\ user = "root"


(***************************************************************************)
(* Further properties of a session.                                        *)
(***************************************************************************)
\* C12: when the runtime cannot be launched in a session with overlays,
\* main() returns a nonzero code and every overlay of the session is gone.
C12_LaunchFailureCleansUp ==
    (raisedAt = "launch" /\ created # {}) =>
        /\ result # None
        /\ result # <<0>>
        /\ \A t \in created : fs[t].kind = "none"


(***************************************************************************)
(* Two snapshots of one directory with a change in between, as in          *)
(* test_diff_snapshots_detects_changes: Root1 keeps the content the        *)
(* directory DirA had at the first snapshot.                               *)
(***************************************************************************)
InitSnap ==
    /\ pc = "snap_first"
    /\ \E t \in Trees :
         fs = [p \in HostPaths |->
                 IF p \in {Root1, DirA} THEN DirNode(t) ELSE NoNode]
    /\ overlay_paths = <<DirA>>
    /\ edit_args = <<>>
    /\ image \in Images
    /\ user \in Users
    /\ command \in Commands
    /\ edit_paths = <<>>
    /\ idx = 1
    /\ overlays = <<>>
    /\ created = {}
    /\ initial_hashes = <<>>
    /\ initial_snapshots = <<>>
    /\ final_hashes = <<>>
    /\ final_snapshots = <<>>
    /\ changes = <<>>
    /\ file_changes = <<>>
    /\ cmd = <<>>
    /\ exitCode = None
    /\ ret = None
    /\ result = None
    /\ raisedAt = None
    /\ cleanupRuns = 0
    /\ rmFailed = {}
    /\ writes = 0
    /\ stdout = <<>>
    /\ stderr = <<>>
    /\ log = <<>>

SnapFrame ==
    UNCHANGED << log, edit_args, image, user, command, edit_paths, idx,
                 overlays, overlay_paths, created, initial_hashes,
                 final_hashes, changes, cmd, exitCode, ret, result, raisedAt,
                 cleanupRuns, rmFailed, writes, stdout, stderr >>

\* initial = snapshot_directories([d])
SnapshotBefore ==
    /\ pc = "snap_first"
    /\ initial_snapshots' = snapshot_directories(fs, overlay_paths)
    /\ pc' = "snap_change"
    /\ UNCHANGED << fs, final_snapshots, file_changes >>
    /\ SnapFrame

\* the directory is changed in any way: it ends as any tree
ChangeDirectory ==
    /\ pc = "snap_change"
    /\ \E t \in Trees : fs' = [fs EXCEPT ![DirA] = DirNode(t)]
    /\ pc' = "snap_second"
    /\ UNCHANGED << initial_snapshots, final_snapshots, file_changes >>
    /\ SnapFrame

\* final = snapshot_directories([d])
SnapshotAfter ==
    /\ pc = "snap_second"
    /\ final_snapshots' = snapshot_directories(fs, overlay_paths)
    /\ pc' = "snap_diff"
    /\ UNCHANGED << fs, initial_snapshots, file_changes >>
    /\ SnapFrame

\* diff = diff_snapshots(initial, final)
DiffAfter ==
    /\ pc = "snap_diff"
    /\ file_changes' = diff_snapshots(initial_snapshots, final_snapshots)
    /\ pc' = "snap_done"
    /\ UNCHANGED << fs, initial_snapshots, final_snapshots >>
    /\ SnapFrame

NextSnap == SnapshotBefore \/ ChangeDirectory \/ SnapshotAfter \/ DiffAfter

SpecSnap == InitSnap /\ [][NextSnap]_vars

TreeBefore == fs[Root1].tree

TreeAfter == fs[DirA].tree

\* file f alone got other content; nothing else differs
OnlyModified(f) ==
    /\ TreeAfter.dirs = TreeBefore.dirs
    /\ DOMAIN TreeAfter.files = DOMAIN TreeBefore.files
    /\ f \in DOMAIN TreeBefore.files
    /\ TreeAfter.files[f] # TreeBefore.files[f]
    /\ \A g \in DOMAIN TreeBefore.files \ {f} :
         TreeAfter.files[g] = TreeBefore.files[g]

\* file f alone was renamed to the unused path g; nothing else differs
OnlyRenamed(f, g) ==
    /\ TreeAfter.dirs = TreeBefore.dirs
    /\ f \in DOMAIN TreeBefore.files
    /\ g \notin DOMAIN TreeBefore.files
    /\ DOMAIN TreeAfter.files = (DOMAIN TreeBefore.files \ {f}) \cup {g}
    /\ TreeAfter.files[g] = TreeBefore.files[f]
    /\ \A h \in DOMAIN TreeBefore.files \ {f} :
         TreeAfter.files[h] = TreeBefore.files[h]

\* C13: when one file of the root gets different bytes between the two
\* snapshots and nothing else changes, the root's list is one Modified
\* record for that file and nothing else.
C13_SingleModification ==
    pc = "snap_done" =>
        \A f \in FileNames :
            OnlyModified(f) =>
                file_changes = << <<DirA, << <<"Modified", f>> >> >> >>

\* a file in a sub-directory is modified next to two untouched files
C13_Witness ==
    /\ pc = "snap_done"
    /\ OnlyModified(<<"d", "/", "a">>)
    /\ Cardinality(DOMAIN TreeBefore.files) = 3
    /\ RecordsOf(DirA) = << <<"Modified", <<"d", "/", "a">> >> >>

\* C14: when one file is renamed to an unused path between the two
\* snapshots and nothing else changes, the root's list is one Removed
\* record for the old path, one Added record for the new one, no Modified.
C14_RenameIsRemovedPlusAdded ==
    pc = "snap_done" =>
        \A f, g \in FileNames :
            OnlyRenamed(f, g) =>
                /\ Len(RecordsOf(DirA)) = 2
                /\ Count(RecordsOf(DirA), <<"Removed", f>>) = 1
                /\ Count(RecordsOf(DirA), <<"Added", g>>) = 1
                /\ \A h \in FileNames :
                     Count(RecordsOf(DirA), <<"Modified", h>>) = 0

\* a file moves into a sub-directory, another file stays
C14_Witness ==
    /\ pc = "snap_done"
    /\ OnlyRenamed(<<"b">>, <<"d", "/", "a">>)
    /\ <<"a">> \in DOMAIN TreeBefore.files
    /\ Len(RecordsOf(DirA)) = 2


(***************************************************************************)
(* The order of the steps of a session, read off the log.                  *)
(***************************************************************************)
Steps(e) == { n \in 1..Len(log) : log[n] = e }

\* every step `later` comes after some step `earlier`
Follows(later, earlier) ==
    \A j \in Steps(later) : \E i \in Steps(earlier) : i < j

\* no step `later` comes before a step `earlier`
AllBefore(earlier, later) ==
    \A i \in Steps(earlier), j \in Steps(later) : i < j

\* C15: all overlays are prepared before the pre snapshot; the pre snapshot
\* is complete before the launch; the post snapshot comes after the exit of
\* the sandbox and before any removal of an overlay; the report comes after
\* the diff.
C15_StepOrder ==
    /\ AllBefore("copy", "pre_snapshot")
    /\ Steps("pre_snapshot") # {} => Cardinality(Steps("copy")) = Len(edit_paths)
    /\ Follows("launch", "pre_snapshot")
    /\ AllBefore("pre_snapshot", "launch")
    /\ Follows("post_snapshot", "exit")
    /\ Follows("exit", "launch")
    /\ AllBefore("post_snapshot", "remove")
    /\ Follows("remove", "post_snapshot")
    /\ Follows("report", "diff")
    /\ Follows("diff", "post_snapshot")

\* a complete session with two roots
C15_Witness ==
    /\ pc = "done"
    /\ log = << "copy", "copy", "pre_snapshot", "launch", "exit",
                "post_snapshot", "diff", "remove", "remove", "report" >>


\* validation or a copy has failed in this session
SetupFailed == Steps("invalid_path") \cup Steps("copy_failed") # {}

\* C16: once validation or an overlay copy has failed, the session is over
\* and run_container has not been and will not be called.
C16_NoLaunchAfterSetupFailure ==
    SetupFailed =>
        /\ Steps("launch") = {}
        /\ cmd = <<>>
        /\ exitCode = None
        /\ SessionEnded

\* the copy of the second root fails after the first was copied
C16_Witness ==
    /\ log = << "copy", "copy_failed" >>
    /\ raisedAt = "prepare"
    /\ Cardinality(created) = 2


\* C17: cleanup_overlays tries to remove every overlay of the mapping, one
\* attempt each; a failed removal raises nothing and the overlays after it
\* are still tried.
C17_CleanupTriesEveryOverlay ==
    /\ raisedAt # "cleanup"
    /\ pc = "cleanup" => Cardinality(Steps("remove")) = idx - 1
    /\ cleanupRuns > 0 =>
         /\ Cardinality(Steps("remove")) = Len(overlays)
         /\ \A n \in 1..Len(overlays) :
              fs[overlays[n][2]].kind = "none" \/ overlays[n][2] \in rmFailed

\* the removal of the first overlay failed, the second overlay was removed
C17_Witness ==
    /\ pc = "done"
    /\ Len(overlays) = 2
    /\ rmFailed = {overlays[1][2]}
    /\ fs[overlays[1][2]].kind = "dir"
    /\ fs[overlays[2][2]].kind = "none"


\* lines 162-170 have run
Reported == Steps("report") # {}

\* what main() printed after the line of run_container (line 127)
ReportOut == SubSeq(stdout, 2, Len(stdout))

\* the lines of the report, as a set
Lines == SeqToSet(ReportOut)

NoChangesLine == <<"No changes detected.">>

RootLine(p) == <<" -", p>>

EntryLine(p, record) == <<"   ", p, "/", record>>

\* every record diff_snapshots holds for overlay p is a line of the report
EntriesListed(p) ==
    \A n \in 1..Len(RecordsOf(p)) : EntryLine(p, RecordsOf(p)[n]) \in Lines

\* neither the fingerprint nor the snapshot of overlay p differs
RootUnchanged(p) ==
    /\ Get(initial_hashes, p) = Get(final_hashes, p)
    /\ ~HasKey(file_changes, p)

\* C18 as stated: every unchanged root gets a "no changes" line and every
\* changed root gets its Added/Modified/Removed entries, also when both kinds
\* of root occur in one session.
C18_ReportPerRoot ==
    Reported =>
        \A p \in SeqToSet(overlay_paths) :
            /\ RootUnchanged(p) => NoChangesLine \in Lines
            /\ HasKey(file_changes, p) => EntriesListed(p)

\* C18, amended: the report is one report for the session.  When diff_hashes
\* returns no root it is the single line "No changes detected."; otherwise
\* it is the header, one " - overlay" line for each root whose fingerprint
\* differs and one line for each record of diff_snapshots, and no
\* "no changes" line at all: an unchanged root gets no line.
C18_ReportForWholeSession ==
    Reported =>
        IF changes = <<>>
        THEN ReportOut = << NoChangesLine >>
        ELSE /\ ReportOut[1] = <<"Directories changed during session:">>
             /\ NoChangesLine \notin Lines
             /\ Cardinality(Lines) = Len(ReportOut)
             /\ \A p \in SeqToSet(overlay_paths) :
                  /\ RootLine(p) \in Lines
                       <=> Get(initial_hashes, p) # Get(final_hashes, p)
                  /\ EntriesListed(p)
             /\ \A n \in 2..Len(ReportOut) :
                  \E p \in SeqToSet(overlay_paths) :
                      \/ ReportOut[n] = RootLine(p)
                      \/ \E m \in 1..Len(RecordsOf(p)) :
                            ReportOut[n] = EntryLine(p, RecordsOf(p)[m])

\* two roots, one with a changed file and one unchanged, and the report has
\* been printed
C18_Witness ==
    /\ Reported
    /\ Len(overlay_paths) = 2
    /\ Len(changes) = 1
    /\ HasKey(file_changes, changes[1])
    /\ \E p \in SeqToSet(overlay_paths) : RootUnchanged(p)
    /\ Len(ReportOut) > 1


\* prepare_overlays has returned its mapping (line 95)
PrepareReturned == Steps("pre_snapshot") # {} \/ pc = "pre_snapshot"

\* C19: for every list of validated roots, also one naming a directory
\* twice, every directory prepare_overlays created is a value of the mapping
\* it returns, and after a cleanup in which no removal failed none of them
\* exists.
C19_EveryCreatedDirIsInMapping ==
    /\ PrepareReturned => created \subseteq SeqToSet(Values(overlays))
    /\ (cleanupRuns > 0 /\ rmFailed = {}) =>
           \A t \in created : fs[t].kind = "none"

====
